---- MODULE Spec2Model ----
(***************************************************************************)
(* Model of the PDF conversion orchestrator:                               *)
(*   src/main.py                    the parse_pdf request handler          *)
(*   src/marker/converters/pdf.py   renderer2cls and class PdfConverter    *)
(*                                                                         *)
(* Every entry point of the two files is modelled as an operation of one   *)
(* state machine.  `entry` is the operation a run started in and `pc` the  *)
(* position inside it.  Calls into collaborators that are not part of the  *)
(* two files (builders, processors, renderers, the network, the file       *)
(* system) either return or raise, chosen nondeterministically.            *)
(***************************************************************************)
EXTENDS Integers, Sequences, FiniteSets, TLC

\* ---------------------------------------------------------------- bounds
MaxProcessors == 3
MaxRenderers == 2
MaxPages == 2
MaxBlocks == 3
MaxChunks == 2

\* ------------------------------------------------------- python outcomes
None == "None"
NoExc == [type |-> "None", at |-> 0]
Exc(t, i) == [type |-> t, at |-> i]
Return(v) == [exc |-> "None", value |-> v]
Raise(e) == [exc |-> e, value |-> None]

\* ------------------------------------------------- renderer selector text
\* A selector string is the list of its "+"-separated pieces; None is the
\* absent selector.
Tokens == {"pageMarkdown", "markdown", "chunks", "pdf2html"}
NoneSel == [isNone |-> TRUE, tokens |-> <<>>]
StrSel(toks) == [isNone |-> FALSE, tokens |-> toks]
Selectors ==
    {NoneSel} \cup {StrSel(<<t>>) : t \in Tokens}
              \cup {StrSel(<<t, u>>) : t \in Tokens, u \in Tokens}

\* pdf.py 61-73.  The parameter is `name`; the body reads and assigns
\* `renderer`, which is therefore a local that has no value at line 62.
\* Nothing is ever returned.
renderer2cls(name) ==
    LET locals == [n \in {"name"} |-> name]
    IN  IF "renderer" \notin DOMAIN locals
        THEN Raise("UnboundLocalError")
        ELSE Return(None)

\* pdf.py 93-122, by category.
ProcessorKinds == {"structural", "llm"}
DefaultRenderers == <<"PageMarkdownRenderer", "ChunkRenderer">>

\* The configuration mapping handed to the constructor.
NoneConfig ==
    [isNone |-> TRUE, has_renderer |-> FALSE, renderer |-> NoneSel,
     ignore_TOC |-> FALSE]
Configs ==
    {NoneConfig} \cup
    [isNone : {FALSE}, has_renderer : {FALSE}, renderer : {NoneSel},
     ignore_TOC : BOOLEAN] \cup
    [isNone : {FALSE}, has_renderer : {TRUE}, renderer : Selectors,
     ignore_TOC : BOOLEAN]

\* pdf.py 125-186.
PdfConverter_init(config) ==
    IF config.isNone
    THEN Raise("AttributeError")
    ELSE LET renderer == IF config.has_renderer THEN config.renderer
                         ELSE NoneSel
             r == renderer2cls(renderer)
         IN  IF r.exc # "None"
             THEN Raise(r.exc)
             ELSE Return([renderer |-> IF r.value # None THEN <<r.value>>
                                       ELSE DefaultRenderers,
                          ignore_blocks |-> IF config.ignore_TOC
                                            THEN {"TableOfContents"}
                                            ELSE {}])


\* pdf.py 93-122: the default processor tuple, each entry by its category
\* (the LLM* classes are the language-model assisted ones).
default_processors ==
    <<"structural", "structural", "structural", "structural", "structural",
      "structural", "structural", "structural", "structural", "structural",
      "structural", "structural", "structural", "structural",
      "llm", "llm", "llm", "structural",
      "llm", "llm", "llm", "llm", "llm", "llm", "llm",
      "structural", "structural", "structural">>

\* ------------------------------------------------------------ documents
\* A page with c blocks has the blocks 1..c; its structure lists some of
\* them, each at most once, in any order.  A document has at most MaxPages
\* pages and at most MaxBlocks blocks in all; page ids count from 0.
Structures(children) ==
    {s \in UNION {[1..n -> children] : n \in 0..Cardinality(children)} :
        \A i, j \in DOMAIN s : i # j => s[i] # s[j]}
Pages(id, c) ==
    [page_id : {id}, ignore_for_output : BOOLEAN, children : {1..c},
     structure : Structures(1..c)]
RECURSIVE DocumentsOf(_, _)
DocumentsOf(n, blocks) ==
    IF n = 0 THEN {<<>>}
    ELSE UNION {{Append(d, page) : d \in DocumentsOf(n - 1, blocks - c),
                                   page \in Pages(n - 1, c)} :
                c \in 0..blocks}
Documents == UNION {DocumentsOf(n, MaxBlocks) : n \in 0..MaxPages}

\* pdf.py 251: str(identity) of the block with number b on page p.
BlockIdStr(p, b) == <<"/page", p, "/Block", b>>

\* A page_structure that never looks at ignore_for_output.
PageStructure_noIgnore(doc) ==
    [p \in {doc[i].page_id : i \in DOMAIN doc} |->
        LET doc_child == CHOOSE c \in {doc[i] : i \in DOMAIN doc} :
                             c.page_id = p
        IN  [k \in DOMAIN doc_child.structure |->
                BlockIdStr(p, doc_child.structure[k])]]

\* pdf.py 246-251: the page_structure mapping of render_document.
PageStructure(doc) ==
    [p \in {doc[i].page_id : i \in DOMAIN doc} |->
        LET doc_child == CHOOSE c \in {doc[i] : i \in DOMAIN doc} :
                             c.page_id = p
        IN  IF doc_child.ignore_for_output
            THEN <<>>
            ELSE [k \in DOMAIN doc_child.structure |->
                     BlockIdStr(p, doc_child.structure[k])]]

\* ------------------------------------------------------------ renderers
RendererClasses ==
    {"PageMarkdownRenderer", "ChunkRenderer", "MarkdownRenderer",
     "HTMLRenderer"}
ImageKeys == {"img_a"}
RendererShapes ==
    UNION {[kind : {"list"}, items : [1..n -> RendererClasses]] :
           n \in 0..MaxRenderers}
    \cup [kind : {"class"}, items : {<<c>> : c \in RendererClasses}]
    \cup {[kind |-> "other", items |-> <<>>]}

\* pdf.py 230-242: the output key render() attaches to a renderer class;
\* for any other class render() falls off its end and returns None.
RenderKey(cls) ==
    IF cls = "PageMarkdownRenderer" THEN "page_renders"
    ELSE IF cls = "ChunkRenderer" THEN "chunks"
    ELSE IF cls = "MarkdownRenderer" THEN "markdown"
    ELSE None

EmptyOut ==
    [page_structure |-> <<>>, keys |-> {}, has_images |-> FALSE,
     images |-> <<>>, metadata |-> 0]

\* pdf.py 256-257 and 262-264: store one renderer's key and image mapping.
StoreRender(out, key, images) ==
    [out EXCEPT !.keys = @ \cup {key}, !.has_images = TRUE,
                !.images = images]


\* ---------------------------------------------------------------- state
VARIABLES
    entry,           \* the operation the run started in
    pc,              \* position inside the running operation
    file_url,        \* parse_pdf: request.file_url
    optional_config, \* parse_pdf: request.optional_config
    tmp_path,        \* parse_pdf: local tmp_path
    chunks,          \* parse_pdf: chunks written to the download file
    status,          \* parse_pdf: status code of the response, 0 = none yet
    failure,         \* parse_pdf: the step that failed (history)
    fs,              \* temporary files that exist on disk
    created,         \* temporary files ever created (history)
    unlink_failed,   \* temporary files whose os.unlink raised (history)
    selector,        \* renderer2cls: the argument
    config,          \* PdfConverter.__init__: the config argument
    result,          \* outcome of renderer2cls / PdfConverter.__init__
    file_input,      \* __call__: kind of the filepath argument
    temp_file,       \* filepath_to_str: local temp_file
    processor_list,  \* self.processor_list, each processor by category
    proc_i,          \* build_document: processors already called
    page_count,      \* self.page_count, -1 = None
    rendered,        \* __call__: local rendered
    exc,             \* the exception propagating, NoExc if none
    trace,           \* stages invoked so far, in order (history)
    self_renderer,   \* self.renderer
    document,        \* render_document: the document argument
    render_j,        \* render_document: renderers already called
    out_render,      \* render_document: local out_render
    produced         \* image mappings the renderers returned (history)

vars ==
    <<entry, pc, file_url, optional_config, tmp_path, chunks, status,
      failure, fs, created, unlink_failed, selector, config, result,
      file_input, temp_file, processor_list, proc_i, page_count, rendered,
      exc, trace, self_renderer, document, render_j, out_render,
      produced>>

parseVars == <<file_url, optional_config, tmp_path, chunks, status, failure>>
callVars ==
    <<file_input, temp_file, processor_list, proc_i, page_count, rendered,
      exc, trace>>
renderVars == <<document, render_j, out_render, produced>>
pureVars == <<selector, config, result>>

FileUrls == {"", "http://cdn/doc.pdf", "http://cdn/doc"}
EndsWithPdf(url) == url = "http://cdn/doc.pdf"
ProcessorLists ==
    UNION {[1..n -> ProcessorKinds] : n \in 0..MaxProcessors}
NoRenderer == [kind |-> "other", items |-> <<>>]

Entries ==
    {"parse_pdf", "renderer2cls", "PdfConverter", "__call__",
     "render_document"}

\* Everything a run does not use keeps its start value.
InitOf(e, url, oc, sel, cfg, fi, pl, sr, doc) ==
    /\ entry = e
    /\ pc = IF e = "parse_pdf" THEN "p_start"
            ELSE IF e = "renderer2cls" THEN "f_call"
            ELSE IF e = "PdfConverter" THEN "i_call"
            ELSE IF e = "__call__" THEN "c_enter"
            ELSE "r_pages"
    /\ file_url = url
    /\ optional_config = oc
    /\ tmp_path = None
    /\ chunks = 0
    /\ status = 0
    /\ failure = None
    /\ fs = {}
    /\ created = {}
    /\ unlink_failed = {}
    /\ selector = sel
    /\ config = cfg
    /\ result = Return(None)
    /\ file_input = fi
    /\ temp_file = None
    /\ processor_list = pl
    /\ proc_i = 0
    /\ page_count = -1
    /\ rendered = None
    /\ exc = NoExc
    /\ trace = <<>>
    /\ self_renderer = sr
    /\ document = doc
    /\ render_j = 0
    /\ out_render = EmptyOut
    /\ produced = <<>>

Init ==
    \/ \E url \in FileUrls, oc \in Configs :
          InitOf("parse_pdf", url, oc, NoneSel, NoneConfig, "str", <<>>,
                 NoRenderer, <<>>)
    \/ \E sel \in Selectors :
          InitOf("renderer2cls", "", NoneConfig, sel, NoneConfig, "str",
                 <<>>, NoRenderer, <<>>)
    \/ \E cfg \in Configs :
          InitOf("PdfConverter", "", NoneConfig, NoneSel, cfg, "str", <<>>,
                 NoRenderer, <<>>)
    \/ \E fi \in {"str", "BytesIO", "other"}, pl \in ProcessorLists :
          InitOf("__call__", "", NoneConfig, NoneSel, NoneConfig, fi, pl,
                 [kind |-> "list", items |-> DefaultRenderers], <<>>)
    \/ \E sr \in RendererShapes, doc \in Documents :
          InitOf("render_document", "", NoneConfig, NoneSel, NoneConfig,
                 "str", <<>>, sr, doc)


\* ============================================================ operations

\* ------------------------------------------- renderer2cls, called alone
CallRenderer2cls ==
    /\ pc = "f_call"
    /\ result' = renderer2cls(selector)
    /\ pc' = "done"
    /\ UNCHANGED <<entry, parseVars, fs, created, unlink_failed, selector,
                   config, callVars, self_renderer, renderVars>>

\* ------------------------------------ PdfConverter(...), called alone
Construct ==
    /\ pc = "i_call"
    /\ result' = PdfConverter_init(config)
    /\ self_renderer' =
           IF result'.exc = "None"
           THEN [kind |-> "list", items |-> result'.value.renderer]
           ELSE self_renderer
    /\ pc' = "done"
    /\ UNCHANGED <<entry, parseVars, fs, created, unlink_failed, selector,
                   config, callVars, renderVars>>

\* --------------------------------------------- PdfConverter.__call__
\* A loop that stops one processor short of the end of the list.
LoopNext_skipLast(i, pl) ==
    IF i + 1 >= Len(pl) THEN "c_render" ELSE "c_proc"

\* pdf.py 223: the position after i processors of the list pl have returned.
LoopNext(i, pl) == IF i = Len(pl) THEN "c_render" ELSE "c_proc"

\* A cleanup placed after the yield instead of in a finally block: it
\* runs only when no exception is propagating.
CleanupRuns_afterYield(tf, files, e) ==
    tf # None /\ tf \in files /\ e = NoExc

\* pdf.py 207-208: the cleanup is a finally block, so it runs whatever
\* exception e is propagating; it unlinks when temp_file tf was bound and
\* the file is among the existing files.
CleanupRuns(tf, files, e) == tf # None /\ tf \in files

\* pdf.py 190-206: filepath_to_str up to its yield.
CallEnter ==
    /\ pc = "c_enter"
    /\ IF file_input = "str"
       THEN /\ pc' = "c_build"
            /\ UNCHANGED <<temp_file, fs, created, exc>>
       ELSE \E made \in BOOLEAN :
              IF ~made
              THEN /\ exc' = Exc("OSError", 0)
                   /\ pc' = "c_finally"
                   /\ UNCHANGED <<temp_file, fs, created>>
              ELSE /\ temp_file' = "tmp_conv"
                   /\ fs' = fs \cup {"tmp_conv"}
                   /\ created' = created \cup {"tmp_conv"}
                   /\ IF file_input = "BytesIO"
                      THEN \E written \in BOOLEAN :
                             IF written
                             THEN pc' = "c_build" /\ exc' = exc
                             ELSE /\ exc' = Exc("OSError", 0)
                                  /\ pc' = "c_finally"
                      ELSE /\ exc' = Exc("TypeError", 0)
                           /\ pc' = "c_finally"
    /\ UNCHANGED <<entry, parseVars, unlink_failed, pureVars, file_input,
                   processor_list, proc_i, page_count, rendered,
                   trace, self_renderer, renderVars>>

\* pdf.py 212-219: provider and the DocumentBuilder call.
CallBuild ==
    /\ pc = "c_build"
    /\ trace' = Append(trace, [stage |-> "DocumentBuilder", i |-> 0])
    /\ \E ok \in BOOLEAN :
         IF ok THEN pc' = "c_structure" /\ exc' = exc
         ELSE exc' = Exc("BuildError", 0) /\ pc' = "c_finally"
    /\ UNCHANGED <<entry, parseVars, fs, created, unlink_failed, pureVars,
                   file_input, temp_file, processor_list, proc_i,
                   page_count, rendered, self_renderer, renderVars>>

\* pdf.py 220-221: the structure pass.
CallStructure ==
    /\ pc = "c_structure"
    /\ trace' = Append(trace, [stage |-> "StructureBuilder", i |-> 0])
    /\ \E ok \in BOOLEAN :
         IF ok
         THEN /\ pc' = LoopNext(0, processor_list)
              /\ exc' = exc
         ELSE exc' = Exc("BuildError", 1) /\ pc' = "c_finally"
    /\ UNCHANGED <<entry, parseVars, fs, created, unlink_failed, pureVars,
                   file_input, temp_file, processor_list, proc_i,
                   page_count, rendered, self_renderer, renderVars>>

\* pdf.py 223-226: one iteration of the processor loop.
CallProcessor ==
    /\ pc = "c_proc"
    /\ proc_i < Len(processor_list)
    /\ trace' = Append(trace, [stage |-> "processor", i |-> proc_i + 1])
    /\ \E ok \in BOOLEAN :
         IF ok
         THEN /\ proc_i' = proc_i + 1
              /\ pc' = LoopNext(proc_i + 1, processor_list)
              /\ exc' = exc
         ELSE /\ exc' = Exc("ProcessorError", proc_i + 1)
              /\ pc' = "c_finally"
              /\ proc_i' = proc_i
    /\ UNCHANGED <<entry, parseVars, fs, created, unlink_failed, pureVars,
                   file_input, temp_file, processor_list, page_count,
                   rendered, self_renderer, renderVars>>

\* pdf.py 274-276: page count, then the renderer call.
CallRender ==
    /\ pc = "c_render"
    /\ \E n \in 0..MaxPages : page_count' = n
    /\ trace' = Append(trace, [stage |-> "renderer", i |-> 0])
    /\ \E ok \in BOOLEAN :
         IF ok THEN rendered' = "rendered" /\ exc' = exc
         ELSE exc' = Exc("RenderError", 0) /\ rendered' = rendered
    /\ pc' = "c_finally"
    /\ UNCHANGED <<entry, parseVars, fs, created, unlink_failed, pureVars,
                   file_input, temp_file, processor_list, proc_i,
                   self_renderer, renderVars>>

\* pdf.py 207-209 and 277: the finally block of filepath_to_str, then the
\* call ends; inside parse_pdf control goes back to main.py 112 or 114-115.
CallFinally ==
    /\ pc = "c_finally"
    /\ IF CleanupRuns(temp_file, fs, exc)
       THEN \E ok \in BOOLEAN :
              IF ok
              THEN /\ fs' = fs \ {temp_file}
                   /\ UNCHANGED <<exc, rendered, unlink_failed>>
              ELSE /\ exc' = Exc("OSError", 1)
                   /\ rendered' = None
                   /\ unlink_failed' = unlink_failed \cup {temp_file}
                   /\ fs' = fs
       ELSE UNCHANGED <<fs, exc, rendered, unlink_failed>>
    /\ IF entry = "parse_pdf"
       THEN /\ status' = IF exc' = NoExc THEN 200 ELSE 500
            /\ failure' = IF exc' = NoExc THEN failure ELSE "conversion"
            /\ pc' = "p_finally"
       ELSE pc' = "done" /\ UNCHANGED <<status, failure>>
    /\ UNCHANGED <<entry, file_url, optional_config, tmp_path, chunks,
                   created, pureVars, file_input, temp_file, processor_list,
                   proc_i, page_count, trace, self_renderer, renderVars>>


\* -------------------------------------------------- main.py parse_pdf
\* The response of an early return or of the except clause at 114-115;
\* control then passes to the finally block.
Respond(code, why) ==
    /\ status' = code
    /\ failure' = why
    /\ pc' = "p_finally"

\* main.py 46-63: read the options.
ParseConfig ==
    /\ pc = "p_start"
    /\ IF optional_config.isNone
       THEN Respond(500, "config")
       ELSE pc' = "p_download" /\ UNCHANGED <<status, failure>>
    /\ UNCHANGED <<entry, file_url, optional_config, tmp_path, chunks, fs,
                   created, unlink_failed, pureVars, callVars,
                   self_renderer, renderVars>>

\* main.py 65-85: open the download and look at what it is.
ParseDownload ==
    /\ pc = "p_download"
    /\ IF file_url = ""
       THEN Respond(400, "request")
       ELSE \E net \in {"ok", "RequestException", "HTTPError"},
               content_pdf \in BOOLEAN :
              IF net # "ok"
              THEN Respond(400, "download")
              ELSE IF ~content_pdf /\ ~EndsWithPdf(file_url)
              THEN Respond(400, "not_pdf")
              ELSE pc' = "p_tmp" /\ UNCHANGED <<status, failure>>
    /\ UNCHANGED <<entry, file_url, optional_config, tmp_path, chunks, fs,
                   created, unlink_failed, pureVars, callVars,
                   self_renderer, renderVars>>

\* main.py 88: create the named temporary file (delete=False).
ParseOpenTmp ==
    /\ pc = "p_tmp"
    /\ \E made \in BOOLEAN :
         IF made
         THEN /\ fs' = fs \cup {"tmp_dl"}
              /\ created' = created \cup {"tmp_dl"}
              /\ pc' = "p_stream"
              /\ UNCHANGED <<status, failure>>
         ELSE Respond(500, "tmpfile") /\ UNCHANGED <<fs, created>>
    /\ UNCHANGED <<entry, file_url, optional_config, tmp_path, chunks,
                   unlink_failed, pureVars, callVars, self_renderer,
                   renderVars>>

\* main.py 89-92: stream the body into the file; tmp_path is assigned
\* only after the last chunk.
ParseStream ==
    /\ pc = "p_stream"
    /\ \E ev \in {"chunk", "end", "error"} :
         IF ev = "chunk"
         THEN /\ chunks < MaxChunks
              /\ chunks' = chunks + 1
              /\ UNCHANGED <<pc, tmp_path, status, failure>>
         ELSE IF ev = "end"
         THEN /\ tmp_path' = "tmp_dl"
              /\ pc' = "p_construct"
              /\ UNCHANGED <<chunks, status, failure>>
         ELSE Respond(500, "stream") /\ UNCHANGED <<chunks, tmp_path>>
    /\ UNCHANGED <<entry, file_url, optional_config, fs, created,
                   unlink_failed, pureVars, callVars, self_renderer,
                   renderVars>>

\* main.py 62 and 97-106: the config parse_pdf builds for the converter.
ConverterConfig(oc) ==
    [isNone |-> FALSE, has_renderer |-> TRUE,
     renderer |-> IF oc.has_renderer THEN oc.renderer
                  ELSE StrSel(<<"pageMarkdown", "chunks">>),
     ignore_TOC |-> oc.ignore_TOC]

\* main.py 94-110: build the converter and call it on tmp_path.
ParseConstruct ==
    /\ pc = "p_construct"
    /\ \E models \in BOOLEAN :
         LET r == PdfConverter_init(ConverterConfig(optional_config))
         IN  IF ~models \/ r.exc # "None"
             THEN /\ Respond(500, "construct")
                  /\ UNCHANGED <<self_renderer, processor_list>>
             ELSE /\ self_renderer' =
                        [kind |-> "list", items |-> r.value.renderer]
                  /\ processor_list' = default_processors
                  /\ pc' = "c_enter"
                  /\ UNCHANGED <<status, failure>>
    /\ UNCHANGED <<entry, file_url, optional_config, tmp_path, chunks, fs,
                   created, unlink_failed, pureVars, file_input, temp_file,
                   proc_i, page_count, rendered, exc, trace,
                   renderVars>>

\* main.py 117-123: the finally block; the response is already fixed.
ParseFinally ==
    /\ pc = "p_finally"
    /\ IF tmp_path # None /\ tmp_path \in fs
       THEN \E ok \in BOOLEAN :
              IF ok
              THEN fs' = fs \ {tmp_path} /\ UNCHANGED unlink_failed
              ELSE /\ unlink_failed' = unlink_failed \cup {tmp_path}
                   /\ fs' = fs
       ELSE UNCHANGED <<fs, unlink_failed>>
    /\ pc' = "done"
    /\ UNCHANGED <<entry, parseVars, created, pureVars, callVars,
                   self_renderer, renderVars>>

\* ------------------------------------ PdfConverter.render_document
\* pdf.py 245-251.
RenderDocPages ==
    /\ pc = "r_pages"
    /\ out_render' =
           [out_render EXCEPT !.page_structure = PageStructure(document)]
    /\ pc' = "r_render"
    /\ UNCHANGED <<entry, parseVars, fs, created, unlink_failed, pureVars,
                   callVars, self_renderer, document, render_j, produced>>

\* pdf.py 254-257 (one iteration over a list) and 261-264 (single class).
RenderDocRenderer ==
    /\ pc = "r_render"
    /\ \/ self_renderer.kind = "list" /\ render_j < Len(self_renderer.items)
       \/ self_renderer.kind = "class" /\ render_j = 0
    /\ LET cls == self_renderer.items[render_j + 1]
           key == RenderKey(cls)
       IN  IF key = None
           THEN /\ exc' = Exc("TypeError", render_j + 1)
                /\ pc' = "done"
                /\ UNCHANGED <<out_render, render_j, produced>>
           ELSE \E ok \in BOOLEAN, imgs \in SUBSET ImageKeys :
                  IF ok
                  THEN LET images == [k \in imgs |-> render_j + 1]
                       IN  /\ out_render' =
                                 IF self_renderer.kind = "class"
                                 THEN [StoreRender(out_render, key, images)
                                          EXCEPT !.metadata = render_j + 1]
                                 ELSE StoreRender(out_render, key, images)
                           /\ produced' = Append(produced, images)
                           /\ render_j' = render_j + 1
                           /\ UNCHANGED <<exc, pc>>
                  ELSE /\ imgs = {}
                       /\ exc' = Exc("RenderError", render_j + 1)
                       /\ pc' = "done"
                       /\ UNCHANGED <<out_render, render_j, produced>>
    /\ UNCHANGED <<entry, parseVars, fs, created, unlink_failed, pureVars,
                   file_input, temp_file, processor_list, proc_i,
                   page_count, rendered, trace, self_renderer,
                   document>>

\* pdf.py 258, 266-269: metadata of the last renderer, the rejection of a
\* renderer that is neither a list nor a renderer class, and the return.
RenderDocReturn ==
    /\ pc = "r_render"
    /\ \/ /\ self_renderer.kind = "list"
          /\ render_j = Len(self_renderer.items)
          /\ IF render_j = 0
             THEN exc' = Exc("UnboundLocalError", 0) /\ out_render' = out_render
             ELSE /\ out_render' = [out_render EXCEPT !.metadata = render_j]
                  /\ exc' = exc
       \/ /\ self_renderer.kind = "class"
          /\ render_j = 1
          /\ UNCHANGED <<exc, out_render>>
       \/ /\ self_renderer.kind = "other"
          /\ exc' = Exc("ValueError", 0)
          /\ out_render' = out_render
    /\ pc' = "done"
    /\ UNCHANGED <<entry, parseVars, fs, created, unlink_failed, pureVars,
                   file_input, temp_file, processor_list, proc_i,
                   page_count, rendered, trace, self_renderer,
                   document, render_j, produced>>

Next ==
    \/ CallRenderer2cls
    \/ Construct
    \/ CallEnter
    \/ CallBuild
    \/ CallStructure
    \/ CallProcessor
    \/ CallRender
    \/ CallFinally
    \/ ParseConfig
    \/ ParseDownload
    \/ ParseOpenTmp
    \/ ParseStream
    \/ ParseConstruct
    \/ ParseFinally
    \/ RenderDocPages
    \/ RenderDocRenderer
    \/ RenderDocReturn

Spec == Init /\ [][Next]_vars


\* ================================================================ claims

IsPrefix(a, b) ==
    /\ Len(a) <= Len(b)
    /\ \A k \in 1..Len(a) : a[k] = b[k]

\* The __call__ of the run has ended (returned or raised to its caller).
CallEnded ==
    \/ entry = "__call__" /\ pc = "done"
    \/ entry = "parse_pdf" /\ pc \in {"p_finally", "done"}
                           /\ failure \in {None, "conversion"}
                           /\ status # 0

\* ---------------------------------------------------------------- C1
\* C1: when a call of PdfConverter.__call__ with an input that is not a
\* path string has ended, on whatever exit path (normal return, an
\* exception of a builder, of a processor or of the renderer, the
\* TypeError for an input that is neither str nor BytesIO), the temporary
\* file that filepath_to_str created does not exist any more, unless the
\* operating system itself refused the removal.
C1_TempFileReleased ==
    (/\ CallEnded
     /\ file_input # "str"
     /\ "tmp_conv" \in created
     /\ "tmp_conv" \notin unlink_failed)
    => "tmp_conv" \notin fs

\* A byte-buffer call whose second processor raised has ended and its
\* temporary file is gone.
C1_Witness ==
    /\ entry = "__call__"
    /\ pc = "done"
    /\ file_input = "BytesIO"
    /\ exc = Exc("ProcessorError", 2)
    /\ "tmp_conv" \in created
    /\ "tmp_conv" \notin fs

\* ---------------------------------------------------------------- C2
\* C2: for every configuration with `renderer` unset, constructing the
\* converter succeeds and selects the two default renderers, whose output
\* keys are exactly "page_renders" and "chunks".
C2_DefaultRenderers ==
    (/\ entry = "PdfConverter"
     /\ pc = "done"
     /\ ~config.isNone
     /\ ~config.has_renderer)
    => /\ result.exc = "None"
       /\ self_renderer.kind = "list"
       /\ {RenderKey(self_renderer.items[k]) :
              k \in DOMAIN self_renderer.items} = {"page_renders", "chunks"}

\* ---------------------------------------------------------------- C3
\* The renderer implementation name of a recognized token (the string
\* literals of pdf.py 62-67).
TokenClass(t) ==
    IF t = "pageMarkdown"
    THEN "marker.renderers.page_markdown.PageMarkdownRenderer"
    ELSE IF t = "markdown" THEN "marker.renderers.markdown.MarkdownRenderer"
    ELSE "marker.renderers.chunk.ChunkRenderer"
Recognized == {"pageMarkdown", "markdown", "chunks"}

\* C3: renderer2cls maps each recognized token to exactly one renderer
\* implementation name, and a selector with an unrecognized token is
\* reported as a ConfigurationError; it is never dropped or replaced by
\* the default.
C3_SelectorParsed ==
    (/\ entry = "renderer2cls"
     /\ pc = "done"
     /\ ~selector.isNone)
    => IF \A k \in DOMAIN selector.tokens : selector.tokens[k] \in Recognized
       THEN /\ result.exc = "None"
            /\ result.value =
                   [k \in DOMAIN selector.tokens |->
                       TokenClass(selector.tokens[k])]
       ELSE result.exc = "ConfigurationError"

\* ---------------------------------------------------------------- C4
\* Last-writer-wins merge of the image mappings in `maps`.
MergeImages(maps) ==
    LET keys == UNION {DOMAIN maps[j] : j \in DOMAIN maps}
        last(k) == CHOOSE j \in DOMAIN maps :
                       /\ k \in DOMAIN maps[j]
                       /\ \A h \in DOMAIN maps : k \in DOMAIN maps[h] => h <= j
    IN  [k \in keys |-> maps[last(k)][k]]

\* C4: for a renderer list of length >= 2, the images of the result of
\* render_document are the merge of the image mappings of all renderers:
\* every key any renderer produced is present, with the value of the
\* latest renderer that produced it.
C4_ImagesMerged ==
    (/\ entry = "render_document"
     /\ pc = "done"
     /\ exc = NoExc
     /\ self_renderer.kind = "list"
     /\ Len(self_renderer.items) >= 2)
    => out_render.images = MergeImages(produced)

\* ---------------------------------------------------------------- C5
PageIds == {document[i].page_id : i \in DOMAIN document}
Resolves(page, s) == \E b \in page.children : s = BlockIdStr(page.page_id, b)

\* C5 as claimed: every page has an entry, the entry is [] exactly when the
\* page is flagged ignore_for_output, and otherwise it is a non-empty list
\* in the order of the page's structure whose identities resolve to blocks
\* of the page.
C5_EmptyIffIgnored ==
    (entry = "render_document" /\ pc # "r_pages")
    => /\ DOMAIN out_render.page_structure = PageIds
       /\ \A i \in DOMAIN document :
            LET page == document[i]
                e == out_render.page_structure[page.page_id]
            IN  /\ (e = <<>>) <=> page.ignore_for_output
                /\ \A k \in DOMAIN e : Resolves(page, e[k])

\* C5 as amended: every page has an entry; the entry is [] when the page is
\* flagged ignore_for_output; otherwise it has one identity per element of
\* the page's structure, in the same order (so it is [] as well when the
\* structure is empty), and every identity resolves to a block of the page.
C5_PageStructure ==
    (entry = "render_document" /\ pc # "r_pages")
    => /\ DOMAIN out_render.page_structure = PageIds
       /\ \A i \in DOMAIN document :
            LET page == document[i]
                e == out_render.page_structure[page.page_id]
            IN  /\ page.ignore_for_output => e = <<>>
                /\ ~page.ignore_for_output =>
                      /\ Len(e) = Len(page.structure)
                      /\ \A k \in DOMAIN e :
                            e[k] = BlockIdStr(page.page_id, page.structure[k])
                /\ \A k \in DOMAIN e : Resolves(page, e[k])

\* render_document has returned for a document with a flagged page that
\* has blocks, and a visible page with two blocks.
C5_Witness ==
    /\ entry = "render_document"
    /\ pc = "done"
    /\ exc = NoExc
    /\ \E i, j \in DOMAIN document :
         /\ document[i].ignore_for_output
         /\ Len(document[i].structure) >= 1
         /\ out_render.page_structure[document[i].page_id] = <<>>
         /\ ~document[j].ignore_for_output
         /\ Len(document[j].structure) >= 2
         /\ Len(out_render.page_structure[document[j].page_id]) >= 2

\* ---------------------------------------------------------------- C6
\* C6: a failed download, also one that fails while the body is streamed
\* into the temporary file, is answered with a 4xx status, a failed
\* conversion with a 5xx status, and 200 is sent only when nothing failed.
C6_StatusClasses ==
    (entry = "parse_pdf" /\ pc = "done")
    => /\ failure \in {"download", "stream"} => status \in 400..499
       /\ failure \in {"construct", "conversion"} => status \in 500..599
       /\ status = 200 => failure = None

\* ---------------------------------------------------------------- C7
\* C7: a failure of an LLM-assisted processor does not abort the
\* conversion; only the failure of a structural processor propagates out
\* of build_document.
C7_LlmFailureSkipped ==
    (entry = "__call__" /\ exc.type = "ProcessorError")
    => processor_list[exc.at] = "structural"

\* ---------------------------------------------------------------- C8
\* The stages of a complete run over the processor list pl.
ExpectedTrace(pl) ==
    <<[stage |-> "DocumentBuilder", i |-> 0],
      [stage |-> "StructureBuilder", i |-> 0]>>
    \o [k \in 1..Len(pl) |-> [stage |-> "processor", i |-> k]]
    \o <<[stage |-> "renderer", i |-> 0]>>

\* C8: the stages of a run are invoked one after the other in the order
\* document builder, structure pass, each processor of the list once in
\* list order, renderer: what has been invoked so far is always an initial
\* part of that sequence, the renderer is invoked only after every
\* processor has returned, and a run that rendered invoked all of it.
C8_StageOrder ==
    entry \in {"__call__", "parse_pdf"}
    => /\ IsPrefix(trace, ExpectedTrace(processor_list))
       /\ (\E k \in DOMAIN trace : trace[k].stage = "renderer")
             => proc_i = Len(processor_list)
       /\ rendered # None => trace = ExpectedTrace(processor_list)

\* A run over at least two processors has returned its rendering.
C8_Witness ==
    /\ entry = "__call__"
    /\ pc = "done"
    /\ exc = NoExc
    /\ rendered = "rendered"
    /\ Len(processor_list) >= 2
    /\ Len(trace) = Len(processor_list) + 3

\* ---------------------------------------------------------------- C9
\* C9: the cleanup of the temporary file never changes the outcome: the
\* result or the exception of the conversion body is what the caller of
\* __call__ gets, and the response parse_pdf has chosen is the one sent,
\* whether or not the removal fails.
C9_CleanupKeepsOutcome ==
    [][/\ pc = "c_finally" => (exc' = exc /\ rendered' = rendered)
       /\ pc = "p_finally" => status' = status]_vars

\* ---------------------------------------------------------------- C10
\* C10: once parse_pdf has created the temporary file of the download, the
\* file does not exist any more when the handler has returned, on every
\* exit path (unless the operating system refused the removal).
C10_DownloadFileReleased ==
    (/\ entry = "parse_pdf"
     /\ pc = "done"
     /\ "tmp_dl" \in created
     /\ "tmp_dl" \notin unlink_failed)
    => "tmp_dl" \notin fs

====
